---- MODULE Spec2Model ----
(***************************************************************************)
(* The configuration synchronisation engine of server.js: the process-wide *)
(* currentConfig / isDefault pair, the two write transports (HTTP POST     *)
(* /api/config and the WebSocket SET_CONFIG message), the promise-chained  *)
(* durable write queue, the broadcast to WebSocket clients, the            *)
(* per-connection fixed-window rate limiter and the badge render's         *)
(* snapshot of the configuration.                                          *)
(***************************************************************************)
EXTENDS Integers, Sequences, FiniteSets, TLC

VARIABLES
    currentConfig,    \* server.js:421  let currentConfig
    isDefault,        \* server.js:422  let isDefault
    readyState,       \* per connection: ws.readyState of the clients of wss
    wsMessageLimits,  \* server.js:27   Map ws -> {count, resetTime}
    now,              \* Date.now()
    jobs,             \* server.js:42   the promise chain writeQueue, as the unsettled saves
    queueBroken,      \* whether writeQueue has settled as rejected
    slot,             \* the file CONFIG_FILE
    render,           \* the renderBadge calls that are suspended at an await
    out,              \* per connection: the frames ws.send() was given in the last step
    httpOut,          \* the HTTP responses sent in the last step
    nacc,             \* history: number of writes accepted so far
    lastWrite,        \* history: the partial and the origin of the latest accepted write
    acceptedPartials, \* history: the partials of all accepted writes
    lastSent,         \* history: per connection, the configuration last sent to it
    arrivals,         \* history: per connection, arrival times of its inbound messages
    bootConfig,       \* history: currentConfig as the start-up load left it
    durable,          \* history: the configuration last written to CONFIG_FILE completely
    apiHits,          \* server.js:17  the requests apiLimiter has counted in its window
    fnIn,             \* the argument of the function under evaluation
    fnOut,            \* its result
    heap,             \* the configuration objects of the process, by identity
    currentRef,       \* the identity of the object currentConfig refers to
    handed,           \* history: the objects given to a render, a broadcast or a save
    ev                \* history: the handler the last step ran and its verdict

vars == <<currentConfig, isDefault, readyState, wsMessageLimits, now, jobs,
          queueBroken, slot, render, out, httpOut, nacc, lastWrite,
          acceptedPartials, lastSent, arrivals, bootConfig, durable, apiHits,
          fnIn, fnOut, heap, currentRef, handed, ev>>

(* What the handlers of the configuration engine leave alone, and what the *)
(* engine consists of.                                                     *)
aside == <<apiHits, fnIn, fnOut>>
objects == <<heap, currentRef, handed>>
engine == <<currentConfig, isDefault, readyState, wsMessageLimits, now, jobs,
            queueBroken, slot, render, out, httpOut, nacc, lastWrite,
            acceptedPartials, lastSent, arrivals, bootConfig, durable>>

----------------------------------------------------------------------------
(* JavaScript values.  A value carries its typeof tag; a number is held in *)
(* hundredths (0.9 is n = 90, 25 is n = 2500) so that the fractional       *)
(* defaults and bounds of the validators stay exact; a string is the       *)
(* sequence of its characters.                                             *)

Num(i)  == [t |-> "number",  n |-> i * 100, s |-> <<>>]
Frac(h) == [t |-> "number",  n |-> h,       s |-> <<>>]
Str(cs) == [t |-> "string",  n |-> 0,       s |-> cs]
Bool(b) == [t |-> "boolean", n |-> IF b THEN 1 ELSE 0, s |-> <<>>]
Null    == [t |-> "null",    n |-> 0,       s |-> <<>>]

Inter == Str(<<"I", "n", "t", "e", "r">>)
Empty == Str(<<>>)

(* A JavaScript object: its own enumerable properties in insertion order.  *)
P(k, v) == [k |-> k, v |-> v]
Keys(o) == {o[i].k : i \in DOMAIN o}
Has(o, k) == k \in Keys(o)
Get(o, k) == o[CHOOSE i \in DOMAIN o : o[i].k = k].v
Put(o, k, v) ==
    IF Has(o, k)
    THEN [i \in DOMAIN o |-> IF o[i].k = k THEN P(k, v) ELSE o[i]]
    ELSE Append(o, P(k, v))

(* Object spread { ...base, ...src }: the properties of base keep their    *)
(* position and take src's value where src has the key; src's other        *)
(* properties follow in src's order.                                       *)
Spread(base, src) ==
    [i \in DOMAIN base |->
        IF Has(src, base[i].k) THEN P(base[i].k, Get(src, base[i].k)) ELSE base[i]]
    \o SelectSeq(src, LAMBDA e : ~Has(base, e.k))

----------------------------------------------------------------------------
(* server.js:369-419.  wScale and hScale occur twice in the literal with   *)
(* the same value; the property keeps its first position.                  *)
DEFAULT_CONFIG == <<
    P("title", Str(<<"W","a","n","d","e","l","C","h","a","l","l","e","n","g","e">>)),
    P("showTitle", Bool(TRUE)),
    P("titleFont", Inter),
    P("titleSize", Num(52)),
    P("titleBold", Bool(TRUE)),
    P("titleItalic", Bool(FALSE)),
    P("titleCheck", Bool(FALSE)),
    P("yearText", Str(<<"2","0","2","6">>)),
    P("yearFont", Inter),
    P("yearBold", Bool(TRUE)),
    P("yearItalic", Bool(FALSE)),
    P("yearSize", Num(180)),
    P("showYear", Bool(TRUE)),
    P("km", Num(25)),
    P("kmFont", Inter),
    P("kmSize", Num(85)),
    P("kmBold", Bool(TRUE)),
    P("kmItalic", Bool(FALSE)),
    P("target", Num(2026)),
    P("day", Empty),
    P("steps", Empty),
    P("handle", Empty),
    P("color", Str(<<"#","1","0","b","9","8","1">>)),
    P("theme", Str(<<"l","i","g","h","t">>)),
    P("icon", Empty),
    P("iconSize", Num(95)),
    P("goalFont", Inter),
    P("goalSize", Num(45)),
    P("goalBold", Bool(TRUE)),
    P("goalItalic", Bool(FALSE)),
    P("opacity", Frac(90)),
    P("showLogo", Bool(TRUE)),
    P("logoType", Str(<<"f","i","g","h","t","c","a","n","c","e","r">>)),
    P("customLogoBase64", Null),
    P("bgImage", Null),
    P("customLogoImg", Null),
    P("fightCancerLogoImg", Null),
    P("weather", Empty),
    P("terrain", Empty),
    P("wScale", Frac(100)),
    P("hScale", Frac(90)),
    P("yPos", Num(1300)),
    P("badgeOffsetX", Num(0)),
    P("badgeOffsetY", Num(0)),
    P("logoOffsetX", Num(0)),
    P("logoOffsetY", Num(0)),
    P("autoDay", Bool(TRUE)) >>

----------------------------------------------------------------------------
(* server.js:55-103, the validators table.                                 *)
IsNumber(v)  == v.t = "number"
IsString(v)  == v.t = "string"
IsBoolean(v) == v.t = "boolean"
StrMax(v, len) == IsString(v) /\ Len(v.s) <= len

HexDigits == {"0","1","2","3","4","5","6","7","8","9",
              "a","b","c","d","e","f","A","B","C","D","E","F"}
(* /^#[0-9A-Fa-f]{6}$/.test(v) *)
IsHexColor(cs) ==
    /\ Len(cs) = 7
    /\ cs[1] = "#"
    /\ \A i \in 2..7 : cs[i] \in HexDigits

DataImagePrefix == <<"d","a","t","a",":","i","m","a","g","e","/">>
StartsWith(cs, pre) == Len(cs) >= Len(pre) /\ SubSeq(cs, 1, Len(pre)) = pre

(* One entry of the validators table: the predicate's shape and its      *)
(* bounds (numbers in hundredths).                                         *)
Rule(kind, lo, hi, len, allowed) ==
    [kind |-> kind, lo |-> lo, hi |-> hi, len |-> len, allowed |-> allowed]
Range(lo, hi) == Rule("range", lo * 100, hi * 100, 0, {})
Scale(lo, hi) == Rule("range", lo, hi, 0, {})
Text(len)     == Rule("text", 0, 0, len, {})
Loose(len)    == Rule("loose", 0, 0, len, {})
Flag          == Rule("boolean", 0, 0, 0, {})
OneOf(vs)     == Rule("enum", 0, 0, 0, vs)
Absent        == Rule("null", 0, 0, 0, {})
AnyNumber     == Rule("number", 0, 0, 0, {})

validators == [
    km        |-> Range(0, 1000000),
    target    |-> Rule("positive", 0, 1000000 * 100, 0, {}),
    day       |-> Loose(10),
    steps     |-> Loose(20),
    title     |-> Text(100),
    yearText  |-> Text(20),
    handle    |-> Text(50),
    titleFont |-> Text(50),
    yearFont  |-> Text(50),
    kmFont    |-> Text(50),
    goalFont  |-> Text(50),
    titleSize |-> Range(20, 200),
    yearSize  |-> Range(50, 500),
    kmSize    |-> Range(40, 200),
    goalSize  |-> Range(20, 100),
    iconSize  |-> Range(40, 200),
    opacity   |-> Range(0, 1),
    wScale    |-> Scale(50, 200),
    hScale    |-> Scale(50, 200),
    yPos      |-> Range(0, 2000),
    showTitle |-> Flag,
    showYear  |-> Flag,
    showLogo  |-> Flag,
    titleBold |-> Flag,
    titleItalic |-> Flag,
    titleCheck  |-> Flag,
    yearBold  |-> Flag,
    yearItalic |-> Flag,
    kmBold    |-> Flag,
    kmItalic  |-> Flag,
    goalBold  |-> Flag,
    goalItalic |-> Flag,
    color     |-> Rule("color", 0, 0, 0, {}),
    theme     |-> OneOf({Str(<<"l","i","g","h","t">>), Str(<<"d","a","r","k">>)}),
    logoType  |-> OneOf({Str(<<"f","i","g","h","t","c","a","n","c","e","r">>),
                         Str(<<"c","u","s","t","o","m">>)}),
    icon      |-> Text(10),
    weather   |-> Text(10),
    terrain   |-> Text(10),
    customLogoBase64   |-> Rule("logo", 0, 0, 5000000, {}),
    bgImage            |-> Absent,
    customLogoImg      |-> Absent,
    fightCancerLogoImg |-> Absent,
    badgeOffsetX |-> AnyNumber,
    badgeOffsetY |-> AnyNumber,
    logoOffsetX  |-> AnyNumber,
    logoOffsetY  |-> AnyNumber,
    autoDay      |-> Flag ]

(* validators[key](v) for a key of the table. *)
Satisfies(r, v) ==
    CASE r.kind = "boolean"  -> IsBoolean(v)
      [] r.kind = "text"     -> StrMax(v, r.len)
      [] r.kind = "range"    -> IsNumber(v) /\ v.n >= r.lo /\ v.n <= r.hi
      [] r.kind = "number"   -> IsNumber(v)
      [] r.kind = "null"     -> v = Null
      [] r.kind = "loose"    -> v = Empty \/ IsNumber(v) \/ StrMax(v, r.len)
      [] r.kind = "positive" -> IsNumber(v) /\ v.n > r.lo /\ v.n <= r.hi
      [] r.kind = "color"    -> IsString(v) /\ IsHexColor(v.s)
      [] r.kind = "enum"     -> v \in r.allowed
      [] r.kind = "logo"     -> v = Null \/ (StrMax(v, r.len) /\ StartsWith(v.s, DataImagePrefix))

NoError == ""

(* server.js:106-107: validators is an object literal, so validators[key]  *)
(* also finds what the literal inherits from Object.prototype.  Called     *)
(* with the value as validators[key](data[key]), an inherited member       *)
(* returns something truthy ("pass"), something falsy ("invalid"), or the  *)
(* call throws a TypeError; validators['__proto__'] is Object.prototype    *)
(* itself, which is truthy and not a function.                             *)
RECURSIVE Join(_)
Join(cs) == IF cs = << >> THEN "" ELSE cs[1] \o Join(Tail(cs))

ObjectPrototype ==
    {"constructor", "toString", "toLocaleString", "valueOf", "hasOwnProperty",
     "propertyIsEnumerable", "isPrototypeOf", "__proto__", "__defineGetter__",
     "__defineSetter__", "__lookupGetter__", "__lookupSetter__"}

NotAFunctionText == "validators[key] is not a function"
ExpectingFunctionText == "Object.prototype.__defineGetter__: Expecting function"

Inherited(key, v) ==
    CASE key \in {"constructor", "toString", "toLocaleString", "valueOf"} -> "pass"
      [] key \in {"hasOwnProperty", "propertyIsEnumerable"} ->
            IF IsString(v) /\ Join(v.s) \in DOMAIN validators THEN "pass" ELSE "invalid"
      [] key = "isPrototypeOf" -> "invalid"
      [] key \in {"__lookupGetter__", "__lookupSetter__"} ->
            IF IsString(v) /\ Join(v.s) = "__proto__" THEN "pass" ELSE "invalid"
      [] key = "__proto__" -> NotAFunctionText
      [] OTHER -> ExpectingFunctionText

(* What the loop body does with one property: "pass", or the message of    *)
(* the error thrown.                                                       *)
Visit(e) ==
    IF e.k \in DOMAIN validators
    THEN IF Satisfies(validators[e.k], e.v) THEN "pass"
         ELSE "Invalid value for " \o e.k
    ELSE IF e.k \in ObjectPrototype
    THEN IF Inherited(e.k, e.v) = "invalid" THEN "Invalid value for " \o e.k
         ELSE Inherited(e.k, e.v)
    ELSE "pass"

(* server.js:50-114.  The loop `for (const key in data)` visits the        *)
(* properties in order and throws at the first one whose validator         *)
(* returns false; the result is the thrown message, or NoError.            *)
(* The loop returning true after the first property it looks at. *)
ValidateFirstKeyOnly(data) ==
    IF data # <<>> /\ data[1].k \in DOMAIN validators
                   /\ ~Satisfies(validators[data[1].k], data[1].v)
    THEN "Invalid value for " \o data[1].k
    ELSE NoError

validateConfig(data) ==
    LET bad == {i \in DOMAIN data : Visit(data[i]) # "pass"}
        first == CHOOSE i \in bad : \A j \in bad : i <= j
    IN  IF bad = {} THEN NoError
        ELSE Visit(data[first])

(* server.js:464 and 516: { ...DEFAULT_CONFIG, ...partial } *)
MergeOntoCurrent(partial) == Spread(currentConfig, partial)

(* The candidate being the partial alone. *)
MergePartialOnly(partial) == partial

MergeWithDefaults(partial) == Spread(DEFAULT_CONFIG, partial)

----------------------------------------------------------------------------
(* Bounds of the model and the inputs it draws.                            *)
MaxWrites  == 2   \* accepted writes per behaviour
MaxRenders == 1   \* renderBadge calls suspended at the same time
MaxTicks   == 2   \* clock steps per behaviour
SyncBurst  == 1   \* inbound frames per connection and window under Spec
MaxBurst   == 11  \* inbound frames per connection and window under SpecRate

WS_RATE_LIMIT == 10
WS_WINDOW_MS  == 1000
TickMs == WS_WINDOW_MS \div 2

Conns  == {1, 2}
NoConn == 0       \* excludeWs = null; also the origin of an HTTP write

Dark == Str(<<"d","a","r","k">>)
PKm       == << P("km", Num(30)) >>
PTheme    == << P("theme", Dark) >>
PBadColor == << P("color", Str(<<"n","o","t","-","a","-","c","o","l","o","r">>)) >>

Partials     == {PKm, PTheme, PBadColor}

(* Partials with a field the canonical default does not have, and with a   *)
(* target that is not positive.                                            *)
PExtra      == << P("bgImageBase64", Str(<<"d","a","t","a",":","i","m","a","g","e","/","p","n","g">>)) >>
PZeroTarget == << P("target", Num(0)) >>
PNegTarget  == << P("target", Num(-5)) >>
BootPartials == {PKm, PExtra, PZeroTarget, PNegTarget}

(* Candidates for validateConfig: objects of up to MaxFields properties    *)
(* out of FieldPool, as they arrive and merged with the canonical default. *)
MaxFields == 2

(* Configurations for the progress computation: km in steps of a half up   *)
(* to MaxKmHalves halves, target a whole number up to MaxTarget.           *)
MaxKmHalves == 12
MaxTarget == 8
BadgeConfigs ==
    {DEFAULT_CONFIG} \cup
    {Spread(DEFAULT_CONFIG, <<P("km", Frac(50 * h)), P("target", Num(t))>>) :
        h \in 0..MaxKmHalves, t \in 1..MaxTarget}

(* Arguments of formatNumber: every whole number up to MaxFormat and       *)
(* numbers around the next group borders, up to the validators' limit and  *)
(* one of seven digits.                                                    *)
MaxFormat == 1100
FormatArgs ==
    {Num(i) : i \in 0..MaxFormat} \cup
    {Num(i) : i \in {9999, 10000, 99999, 100000, 123456, 999999, 1000000, 1234567}}
FieldPool ==
    {P("km", Num(30)), P("km", Num(-1)), P("target", Num(0)),
     P("color", Str(<<"r","e","d">>)), P("theme", Dark),
     P("bgImageBase64", Str(<<"x">>)),
     P("hasOwnProperty", Num(1)), P("hasOwnProperty", Str(<<"k","m">>)),
     P("constructor", Num(1)), P("__proto__", Num(1)),
     P("isPrototypeOf", Bool(TRUE))}
PoolObjects ==
    {o \in UNION {[1..m -> FieldPool] : m \in 0..MaxFields} :
        \A i, j \in DOMAIN o : i # j => o[i].k # o[j].k}
Candidates == PoolObjects \cup {Spread(DEFAULT_CONFIG, o) : o \in PoolObjects}

(* An inbound WebSocket frame: text that JSON.parse rejects, a payload of  *)
(* another type, or { type: 'SET_CONFIG', data }.                          *)
Frame(kind, data) == [kind |-> kind, data |-> data]
Frames(ps) == {Frame("badjson", <<>>), Frame("PING", <<>>)}
                \cup {Frame("SET_CONFIG", p) : p \in ps}
RateFrames == {Frame("PING", <<>>), Frame("SET_CONFIG", PKm)}

----------------------------------------------------------------------------
(* Frames sent to a client and HTTP responses.                             *)
Msg(type, data, flag, message) ==
    [type |-> type, data |-> data, isDefault |-> flag, message |-> message]
InitMsg(config, flag) == Msg("INIT_CONFIG", config, flag, "")
UpdateMsg(config)     == Msg("UPDATE_CONFIG", config, FALSE, "")
ErrorMsg(message)     == Msg("ERROR", <<>>, FALSE, message)

RateLimitText == "Rate limit exceeded. Please slow down."
ParseErrorText == "Unexpected token"
WriteErrorText == "write failed"

Resp(of, job, status, body, error) ==
    [of |-> of, job |-> job, status |-> status, body |-> body, error |-> error]

Silent == [c \in Conns |-> <<>>]
Only(c, m) == [d \in Conns |-> IF d = c THEN <<m>> ELSE <<>>]

(* server.js:360-366 *)
BroadcastStale(config, excludeWs) ==
    [c \in Conns |->
        IF c # excludeWs /\ readyState[c] = "OPEN"
        THEN <<UpdateMsg(currentConfig)>> ELSE <<>>]

BroadcastToAll(config, excludeWs) ==
    [c \in Conns |->
        IF readyState[c] = "OPEN" THEN <<UpdateMsg(config)>> ELSE <<>>]

broadcastConfig(config, excludeWs) ==
    [c \in Conns |->
        IF c # excludeWs /\ readyState[c] = "OPEN"
        THEN <<UpdateMsg(config)>> ELSE <<>>]

----------------------------------------------------------------------------
(* The durable write queue, server.js:41-42 and 352-357.  A job is one     *)
(* call of saveConfig whose promise has not settled: "queued" while its    *)
(* then-callback waits for the promise before it, "called" once            *)
(* fs.promises.writeFile has been called, "opened" once the file has been  *)
(* opened for writing, which truncates it.                                 *)
Job(id, config, by, st) == [id |-> id, cfg |-> config, by |-> by, st |-> st]
InFlight(j) == j.st \in {"called", "opened"}

SaveUnchained(config, by) ==
    Append(jobs, Job(nacc + 1, config, by, "called"))

(* A save that is dropped while another one is unfinished. *)
SaveDropsWhenBusy(config, by) ==
    IF jobs = <<>> THEN Append(jobs, Job(nacc + 1, config, by, "called")) ELSE jobs

saveConfig(config, by) ==
    Append(jobs, Job(nacc + 1, config, by,
                     IF jobs = <<>> THEN "called" ELSE "queued"))

(* server.js:355: .catch(err => console.error(...)) turns a rejected       *)
(* writeFile into a fulfilled writeQueue.                                  *)
SettlesWithoutCatch(ok) == ok

SaveSettlesFulfilled(ok) == TRUE

(* The file: absent, the complete JSON text of cfg, or a strict prefix of  *)
(* it (opened and truncated, not yet or never completely written).         *)
(* writers are the jobs whose bytes the file holds.                        *)
File(kind, config, writers) == [kind |-> kind, cfg |-> config, writers |-> writers]
NoFile == File("absent", <<>>, {})
SlotFiles == {NoFile, File("complete", Spread(DEFAULT_CONFIG, PTheme), {})}

(* What CONFIG_FILE can hold when the process starts: nothing, text that   *)
(* JSON.parse rejects, a configuration saved earlier, or an object written *)
(* by other means.                                                         *)
BootFiles ==
    {NoFile,
     File("partial", Spread(DEFAULT_CONFIG, PKm), {}),
     File("complete", Spread(DEFAULT_CONFIG, PTheme), {}),
     File("complete", Spread(DEFAULT_CONFIG, PExtra), {}),
     File("complete", PZeroTarget, {}),
     File("complete", << >>, {})}

(* server.js:369-433 by identity: the object literal DEFAULT_CONFIG, which *)
(* currentConfig refers to as well unless the load built a new object.     *)
DefaultRef == 1

LoadObjects(f) ==
    IF f.kind = "complete"
    THEN <<DEFAULT_CONFIG, Spread(DEFAULT_CONFIG, f.cfg)>>
    ELSE <<DEFAULT_CONFIG>>

(* The load leaving the flag as it was initialised. *)
LoadLeavesFlag(f) ==
    IF f.kind = "complete"
    THEN [config |-> Spread(DEFAULT_CONFIG, f.cfg), isDefault |-> TRUE]
    ELSE [config |-> DEFAULT_CONFIG, isDefault |-> TRUE]

(* server.js:421-433 *)
LoadConfig(f) ==
    IF f.kind = "complete"
    THEN [config |-> Spread(DEFAULT_CONFIG, f.cfg), isDefault |-> FALSE]
    ELSE [config |-> DEFAULT_CONFIG, isDefault |-> TRUE]

----------------------------------------------------------------------------
(* server.js:484-498.  The result is the updated map and the verdict.      *)
WsCount(c) == IF c \in DOMAIN wsMessageLimits THEN wsMessageLimits[c].count ELSE 0

Entry(count, resetTime) == [count |-> count, resetTime |-> resetTime]

CheckNeverResets(ws) ==
    LET old == IF ws \in DOMAIN wsMessageLimits THEN wsMessageLimits[ws]
               ELSE Entry(0, now + WS_WINDOW_MS)
        new == Entry(old.count + 1, old.resetTime)
    IN  [limits |-> [c \in DOMAIN wsMessageLimits \cup {ws} |->
                        IF c = ws THEN new ELSE wsMessageLimits[c]],
         ok |-> new.count <= WS_RATE_LIMIT]

CheckOffByOne(ws) ==
    LET old == IF ws \in DOMAIN wsMessageLimits THEN wsMessageLimits[ws]
               ELSE Entry(0, now + WS_WINDOW_MS)
        cur == IF now >= old.resetTime THEN Entry(0, now + WS_WINDOW_MS) ELSE old
        new == Entry(cur.count + 1, cur.resetTime)
    IN  [limits |-> [c \in DOMAIN wsMessageLimits \cup {ws} |->
                        IF c = ws THEN new ELSE wsMessageLimits[c]],
         ok |-> new.count <= WS_RATE_LIMIT + 1]

checkWsRateLimit(ws) ==
    LET old == IF ws \in DOMAIN wsMessageLimits THEN wsMessageLimits[ws]
               ELSE Entry(0, now + WS_WINDOW_MS)
        cur == IF now >= old.resetTime THEN Entry(0, now + WS_WINDOW_MS) ELSE old
        new == Entry(cur.count + 1, cur.resetTime)
    IN  [limits |-> [c \in DOMAIN wsMessageLimits \cup {ws} |->
                        IF c = ws THEN new ELSE wsMessageLimits[c]],
         ok |-> new.count <= WS_RATE_LIMIT]

----------------------------------------------------------------------------
(* History of inbound frames, kept apart from the limiter's own counters:  *)
(* recent are the arrival times less than one window old (the newest       *)
(* WS_RATE_LIMIT + 1 of them); qstart is the arrival time of the latest    *)
(* frame that was the connection's first or came a full window after the   *)
(* frame before it, and qcount the frames since, that one included; wpass   *)
(* counts the frames the limiter let through since the entry's resetTime   *)
(* last changed.                                                           *)
NoArrivals == [recent |-> <<>>, qstart |-> -1, qcount |-> 0, last |-> -1, wpass |-> 0]

Within(seq, t) == SelectSeq(seq, LAMBDA x : t - x < WS_WINDOW_MS)
LastN(seq, n) == IF Len(seq) <= n THEN seq ELSE SubSeq(seq, Len(seq) - n + 1, Len(seq))
Min2(a, b) == IF a <= b THEN a ELSE b

Arrive(a, t, sameWindow, passed) ==
    LET quiet == a.last < 0 \/ t - a.last >= WS_WINDOW_MS
    IN  [recent |-> LastN(Append(Within(a.recent, t), t), WS_RATE_LIMIT + 1),
         qstart |-> IF quiet THEN t ELSE a.qstart,
         qcount |-> IF quiet THEN 1 ELSE Min2(a.qcount + 1, WS_RATE_LIMIT + 1),
         last   |-> t,
         wpass  |-> (IF sameWindow THEN a.wpass ELSE 0) + (IF passed THEN 1 ELSE 0)]

Age(a, t) ==
    IF a.last < 0 \/ t - a.last >= WS_WINDOW_MS THEN NoArrivals
    ELSE [a EXCEPT !.recent = Within(a.recent, t)]

Event(op, conn, verdict, input) ==
    [op |-> op, conn |-> conn, verdict |-> verdict, input |-> input]

(* JavaScript truthiness of a value. *)
Truthy(v) ==
    CASE v.t = "number"  -> v.n # 0
      [] v.t = "string"  -> v.s # <<>>
      [] v.t = "boolean" -> v.n = 1
      [] OTHER           -> FALSE

Field(config, k) == IF Has(config, k) THEN Get(config, k) ELSE Null

(* server.js:170 and 327-338: the awaits of renderBadge. *)
AwaitsBg(config) == Truthy(Field(config, "bgImageBase64"))
AwaitsLogo(config) ==
    /\ Truthy(Field(config, "showLogo"))
    /\ \/ Field(config, "logoType") = Str(<<"f","i","g","h","t","c","a","n","c","e","r">>)
       \/ /\ Field(config, "logoType") = Str(<<"c","u","s","t","o","m">>)
          /\ Truthy(Field(config, "customLogoBase64"))

----------------------------------------------------------------------------
(* Number.prototype.toString for the values the model holds: the integer   *)
(* part in decimal digits and, when there is a fraction, a point and the   *)
(* hundredths without a trailing zero.  A string is its own text.          *)
DigitChar(d) == <<"0","1","2","3","4","5","6","7","8","9">>[d + 1]

IsDigit(c) == c \in {DigitChar(d) : d \in 0..9}

DigitOf(c) == CHOOSE d \in 0..9 : DigitChar(d) = c

RECURSIVE DecimalDigits(_)
DecimalDigits(i) ==
    IF i < 10 THEN <<DigitChar(i)>>
    ELSE DecimalDigits(i \div 10) \o <<DigitChar(i % 10)>>

IntegerText(i) == IF i < 0 THEN <<"-">> \o DecimalDigits(-i) ELSE DecimalDigits(i)

toString(v) ==
    IF IsString(v) THEN v.s
    ELSE LET a == IF v.n < 0 THEN -v.n ELSE v.n
             frac == a % 100
             tail == IF frac = 0 THEN << >>
                     ELSE IF frac % 10 = 0 THEN <<".", DigitChar(frac \div 10)>>
                     ELSE <<".", DigitChar(frac \div 10), DigitChar(frac % 10)>>
         IN  (IF v.n < 0 THEN <<"-">> ELSE << >>) \o DecimalDigits(a \div 100) \o tail

(* The length of the run of digits of cs that starts at position p. *)
RECURSIVE DigitRun(_, _)
DigitRun(cs, p) ==
    IF p > Len(cs) \/ ~IsDigit(cs[p]) THEN 0 ELSE 1 + DigitRun(cs, p + 1)

RECURSIVE DigitsValue(_)
DigitsValue(cs) ==
    IF cs = << >> THEN 0
    ELSE 10 * DigitsValue(SubSeq(cs, 1, Len(cs) - 1)) + DigitOf(cs[Len(cs)])

(* parseInt(v): the text of v is parsed up to the first character that is  *)
(* not part of a decimal integer; no digit at all gives NaN.               *)
parseInt(v) ==
    LET cs == toString(v)
        neg == cs # << >> /\ cs[1] = "-"
        from == IF neg THEN 2 ELSE 1
        run == DigitRun(cs, from)
        abs == DigitsValue(SubSeq(cs, from, from + run - 1))
    IN  IF run = 0 THEN [nan |-> TRUE, i |-> 0]
        ELSE [nan |-> FALSE, i |-> IF neg THEN -abs ELSE abs]

(* server.js:205.  The quotient is held exactly as num / den with den > 0; *)
(* a division by zero gives NaN for 0 / 0, and an infinity that Math.min   *)
(* caps at 1 when it is positive.                                          *)
Quotient(kind, num, den) == [kind |-> kind, num |-> num, den |-> den]

perc(config) ==
    LET km == Field(config, "km")
        dist == parseInt(IF Truthy(km) THEN km ELSE Num(0))
        num == dist.i * 100
        den == Field(config, "target").n
    IN  IF dist.nan \/ (den = 0 /\ num = 0) THEN Quotient("NaN", 0, 1)
        ELSE IF den = 0 THEN (IF num > 0 THEN Quotient("finite", 1, 1)
                              ELSE Quotient("-Infinity", 0, 1))
        ELSE IF den < 0 THEN Quotient("finite", -num, -den)
        ELSE IF num >= den THEN Quotient("finite", 1, 1)
        ELSE Quotient("finite", num, den)

(* Math.round(q * 100): the nearest integer, a half going up. *)
RoundPercent(num, den) == (200 * num + den) \div (2 * den)

(* server.js:229: the text drawn in the badge. *)
badgeText(config) ==
    LET q == perc(config)
    IN  IF q.kind = "finite"
        THEN Join(IntegerText(RoundPercent(q.num, q.den))) \o "%"
        ELSE q.kind \o "%"

----------------------------------------------------------------------------
(* server.js:146-148.  The pattern /\B(?=(\d{3})+(?!\d))/g matches the      *)
(* empty text between cs[p] and cs[p + 1] when that place is not a word    *)
(* boundary and is followed by groups of three digits up to a character    *)
(* that is not a digit: the run of digits starting at p + 1 has a length   *)
(* that is a positive multiple of three, and cs[p] is a word character.    *)
WordChars ==
    {DigitChar(d) : d \in 0..9} \cup {"_"} \cup
    {"a","b","c","d","e","f","g","h","i","j","k","l","m",
     "n","o","p","q","r","s","t","u","v","w","x","y","z",
     "A","B","C","D","E","F","G","H","I","J","K","L","M",
     "N","O","P","Q","R","S","T","U","V","W","X","Y","Z"}

(* A separator after every third character counted from the left. *)
SeparatorFromLeft(cs, p) ==
    /\ p < Len(cs)
    /\ p % 3 = 0

SeparatorAt(cs, p) ==
    /\ p < Len(cs)
    /\ cs[p] \in WordChars
    /\ DigitRun(cs, p + 1) > 0
    /\ DigitRun(cs, p + 1) % 3 = 0

(* replace(pattern, "."): the text from position p on with "." put in at   *)
(* every match.                                                            *)
RECURSIVE Replace(_, _)
Replace(cs, p) ==
    IF p > Len(cs) THEN << >>
    ELSE <<cs[p]>> \o (IF SeparatorAt(cs, p) THEN <<".">> ELSE << >>)
                  \o Replace(cs, p + 1)

formatNumber(num) ==
    IF Truthy(num) THEN Join(Replace(toString(num), 1)) ELSE "0"

----------------------------------------------------------------------------
(* The state once the module has been loaded with CONFIG_FILE being one of *)
(* files, server.js:41-42 and 421-433; args are the arguments a function   *)
(* under evaluation is given.                                              *)
Start(files, args) ==
    /\ slot \in files
    /\ currentConfig = LoadConfig(slot).config
    /\ isDefault = LoadConfig(slot).isDefault
    /\ readyState = [c \in Conns |-> "CLOSED"]
    /\ wsMessageLimits = << >>
    /\ now = 0
    /\ jobs = << >>
    /\ queueBroken = FALSE
    /\ render = << >>
    /\ out = Silent
    /\ httpOut = << >>
    /\ nacc = 0
    /\ lastWrite = << >>
    /\ acceptedPartials = {}
    /\ lastSent = [c \in Conns |-> << >>]
    /\ arrivals = [c \in Conns |-> NoArrivals]
    /\ bootConfig = currentConfig
    /\ durable = IF slot.kind = "complete" THEN <<slot.cfg>> ELSE << >>
    /\ apiHits = 0
    /\ fnIn \in args
    /\ fnOut = << >>
    /\ heap = LoadObjects(slot)
    /\ currentRef = Len(heap)
    /\ handed = {}
    /\ ev = Event("start", NoConn, "-", <<>>)

Init == Start(SlotFiles, {<< >>})

Sent(o) == [c \in Conns |->
              IF o[c] # <<>> /\ o[c][Len(o[c])].type # "ERROR"
              THEN <<o[c][Len(o[c])].data>> ELSE lastSent[c]]

(* The write handler answering 200 before it awaits the save. *)
ApplyWriteAnswersAtOnce(merged, partial, by) ==
    /\ nacc < MaxWrites
    /\ currentConfig' = merged
    /\ isDefault' = FALSE
    /\ out' = broadcastConfig(merged, by)
    /\ httpOut' = IF by = NoConn THEN <<Resp("post", nacc + 1, 200, <<>>, "")>>
                  ELSE << >>
    /\ jobs' = saveConfig(merged, by)
    /\ lastSent' = Sent(broadcastConfig(merged, by))
    /\ nacc' = nacc + 1
    /\ lastWrite' = << [p |-> partial, by |-> by] >>
    /\ acceptedPartials' = acceptedPartials \cup {partial}

(* The part of both write handlers after validation succeeded:             *)
(* server.js:467-474 and 519-526.  by is the sending connection, NoConn    *)
(* for HTTP.  When writeQueue is already rejected the await throws and the *)
(* handler's catch answers.                                                *)
ApplyWrite(merged, partial, by) ==
    /\ nacc < MaxWrites
    /\ currentConfig' = merged
    /\ isDefault' = FALSE
    /\ LET cast == broadcastConfig(merged, by)
           fail == queueBroken
       IN  /\ out' = IF fail /\ by # NoConn
                     THEN [cast EXCEPT ![by] = Append(@, ErrorMsg(WriteErrorText))]
                     ELSE cast
           /\ httpOut' = IF fail /\ by = NoConn
                         THEN <<Resp("post", nacc + 1, 400, <<>>, WriteErrorText)>>
                         ELSE << >>
           /\ jobs' = IF fail THEN jobs ELSE saveConfig(merged, by)
           /\ lastSent' = Sent(cast)
    /\ nacc' = nacc + 1
    /\ lastWrite' = << [p |-> partial, by |-> by] >>
    /\ acceptedPartials' = acceptedPartials \cup {partial}

(* server.js:461-481 *)
HttpPost(body) ==
    LET mergedConfig == MergeWithDefaults(body)
        err == validateConfig(mergedConfig)
    IN  /\ IF err = NoError
           THEN /\ ApplyWrite(mergedConfig, body, NoConn)
                /\ ev' = Event("post", NoConn, "accepted", body)
           ELSE /\ httpOut' = <<Resp("post", 0, 400, <<>>, err)>>
                /\ out' = Silent
                /\ ev' = Event("post", NoConn, "invalid", body)
                /\ UNCHANGED <<currentConfig, isDefault, jobs, nacc, lastWrite,
                               acceptedPartials, lastSent>>
        /\ UNCHANGED <<readyState, wsMessageLimits, now, queueBroken, slot,
                       render, arrivals, bootConfig>>
    /\ UNCHANGED <<durable, fnIn, fnOut>>

(* The read answering with what the slot holds instead of the memory. *)
HttpGetReadsSlot ==
    /\ httpOut' = <<Resp("get", 0, 200, LoadConfig(slot).config, "")>>
    /\ out' = Silent
    /\ ev' = Event("get", NoConn, "-", <<>>)
    /\ UNCHANGED <<currentConfig, isDefault, readyState, wsMessageLimits, now,
                   jobs, queueBroken, slot, render, nacc, lastWrite,
                   acceptedPartials, lastSent, arrivals, bootConfig>>
    /\ UNCHANGED <<durable, fnIn, fnOut>>

(* server.js:441-443 *)
HttpGet ==
    /\ httpOut' = <<Resp("get", 0, 200, currentConfig, "")>>
    /\ out' = Silent
    /\ ev' = Event("get", NoConn, "-", <<>>)
    /\ UNCHANGED <<currentConfig, isDefault, readyState, wsMessageLimits, now,
                   jobs, queueBroken, slot, render, nacc, lastWrite,
                   acceptedPartials, lastSent, arrivals, bootConfig>>
    /\ UNCHANGED <<durable, fnIn, fnOut>>

(* server.js:505-532 *)
WsMessage(ws, frame) ==
    LET rl == checkWsRateLimit(ws)
        mergedConfig == MergeWithDefaults(frame.data)
        err == validateConfig(mergedConfig)
        reject(verdict, text, input) ==
            /\ out' = Only(ws, ErrorMsg(text))
            /\ ev' = Event("message", ws, verdict, input)
            /\ httpOut' = << >>
            /\ UNCHANGED <<currentConfig, isDefault, jobs, nacc, lastWrite,
                           acceptedPartials, lastSent>>
    IN  /\ readyState[ws] = "OPEN"
        /\ wsMessageLimits' = rl.limits
        /\ arrivals' = [arrivals EXCEPT ![ws] =
              Arrive(@, now,
                     ws \in DOMAIN wsMessageLimits
                        /\ rl.limits[ws].resetTime = wsMessageLimits[ws].resetTime,
                     rl.ok)]
        /\ IF ~rl.ok THEN reject("ratelimited", RateLimitText, <<>>)
           ELSE IF frame.kind = "badjson" THEN reject("parseerror", ParseErrorText, <<>>)
           ELSE IF frame.kind # "SET_CONFIG"
           THEN /\ out' = Silent
                /\ httpOut' = << >>
                /\ ev' = Event("message", ws, "ignored", <<>>)
                /\ UNCHANGED <<currentConfig, isDefault, jobs, nacc, lastWrite,
                               acceptedPartials, lastSent>>
           ELSE IF err # NoError THEN reject("invalid", err, frame.data)
           ELSE /\ ApplyWrite(mergedConfig, frame.data, ws)
                /\ ev' = Event("message", ws, "accepted", frame.data)
        /\ UNCHANGED <<readyState, now, queueBroken, slot, render, bootConfig>>
    /\ UNCHANGED <<durable, aside>>

(* server.js:500-503: a client connects and is sent INIT_CONFIG. *)
Connect(ws) ==
    /\ readyState[ws] = "CLOSED"
    /\ readyState' = [readyState EXCEPT ![ws] = "OPEN"]
    /\ out' = Only(ws, InitMsg(currentConfig, isDefault))
    /\ lastSent' = [lastSent EXCEPT ![ws] = <<currentConfig>>]
    /\ httpOut' = << >>
    /\ ev' = Event("connection", ws, "-", <<>>)
    /\ UNCHANGED <<currentConfig, isDefault, wsMessageLimits, now, jobs,
                   queueBroken, slot, render, nacc, lastWrite, acceptedPartials,
                   arrivals, bootConfig>>
    /\ UNCHANGED <<durable, aside, objects>>

(* The closing handshake starts: readyState is CLOSING, the socket is     *)
(* still in wss.clients.                                                   *)
BeginClose(ws) ==
    /\ readyState[ws] = "OPEN"
    /\ readyState' = [readyState EXCEPT ![ws] = "CLOSING"]
    /\ out' = Silent
    /\ httpOut' = << >>
    /\ ev' = Event("closing", ws, "-", <<>>)
    /\ UNCHANGED <<currentConfig, isDefault, wsMessageLimits, now, jobs,
                   queueBroken, slot, render, nacc, lastWrite, acceptedPartials,
                   lastSent, arrivals, bootConfig>>
    /\ UNCHANGED <<durable, aside, objects>>

(* server.js:534-537: 'close' deletes the connection's limiter entry. *)
Close(ws) ==
    /\ readyState[ws] = "CLOSING"
    /\ readyState' = [readyState EXCEPT ![ws] = "CLOSED"]
    /\ wsMessageLimits' = [c \in DOMAIN wsMessageLimits \ {ws} |-> wsMessageLimits[c]]
    /\ arrivals' = [arrivals EXCEPT ![ws] = NoArrivals]
    /\ lastSent' = [lastSent EXCEPT ![ws] = << >>]
    /\ out' = Silent
    /\ httpOut' = << >>
    /\ ev' = Event("close", ws, "-", <<>>)
    /\ UNCHANGED <<currentConfig, isDefault, now, jobs, queueBroken, slot,
                   render, nacc, lastWrite, acceptedPartials, bootConfig>>
    /\ UNCHANGED <<durable, aside, objects>>

(* server.js:32-39: the periodic sweep of entries of sockets that are      *)
(* CLOSED or CLOSING.                                                      *)
Sweep ==
    /\ \E c \in DOMAIN wsMessageLimits : readyState[c] # "OPEN"
    /\ wsMessageLimits' =
          [c \in {d \in DOMAIN wsMessageLimits : readyState[d] = "OPEN"} |->
              wsMessageLimits[c]]
    /\ out' = Silent
    /\ httpOut' = << >>
    /\ ev' = Event("sweep", NoConn, "-", <<>>)
    /\ UNCHANGED <<currentConfig, isDefault, readyState, now, jobs, queueBroken,
                   slot, render, nacc, lastWrite, acceptedPartials, lastSent,
                   arrivals, bootConfig>>
    /\ UNCHANGED <<durable, aside, objects>>

(* Date.now() advances. *)
Tick ==
    /\ now < MaxTicks * TickMs
    /\ now' = now + TickMs
    /\ arrivals' = [c \in Conns |-> Age(arrivals[c], now')]
    /\ out' = Silent
    /\ httpOut' = << >>
    /\ ev' = Event("tick", NoConn, "-", <<>>)
    /\ UNCHANGED <<currentConfig, isDefault, readyState, wsMessageLimits, jobs,
                   queueBroken, slot, render, nacc, lastWrite, acceptedPartials,
                   lastSent, bootConfig>>
    /\ UNCHANGED <<durable, aside, objects>>

----------------------------------------------------------------------------
(* fs.promises.writeFile(CONFIG_FILE, ...) of job i opens the file, which  *)
(* truncates it.                                                           *)
FsOpen(i) ==
    /\ i \in DOMAIN jobs
    /\ jobs[i].st = "called"
    /\ jobs' = [jobs EXCEPT ![i].st = "opened"]
    /\ slot' = File("partial", jobs[i].cfg, {jobs[i].id})
    /\ out' = Silent
    /\ httpOut' = << >>
    /\ ev' = Event("open", jobs[i].by, "-", <<>>)
    /\ UNCHANGED <<currentConfig, isDefault, readyState, wsMessageLimits, now,
                   queueBroken, render, nacc, lastWrite, acceptedPartials,
                   lastSent, arrivals, bootConfig>>
    /\ UNCHANGED <<durable, aside, objects>>

Without(seq, i) == [k \in 1..(Len(seq) - 1) |-> IF k < i THEN seq[k] ELSE seq[k + 1]]

(* The writeFile of job i settles: resolved (ok) once the text is written, *)
(* or rejected, before or after the open.  The promise saveConfig returned *)
(* for it settles (server.js:353-356); in the same microtask drain the     *)
(* handler awaiting it resumes (server.js:474-476, 526) and the            *)
(* then-callback of the job chained on it calls writeFile.  A rejected      *)
(* promise instead rejects every job chained behind it, and the catch of   *)
(* each awaiting handler answers (server.js:477-480, 528-531).             *)
FsSettle(i, ok) ==
    /\ i \in DOMAIN jobs
    /\ InFlight(jobs[i])
    /\ ok => jobs[i].st = "opened"
    /\ slot' = IF ok THEN File("complete", jobs[i].cfg, slot.writers \cup {jobs[i].id})
               ELSE slot
    /\ LET fulfilled == SaveSettlesFulfilled(ok)
           rest == Without(jobs, i)
           lost == {k \in DOMAIN jobs : k = i \/ (k > i /\ jobs[k].st = "queued")}
       IN  IF fulfilled
           THEN /\ jobs' = [k \in DOMAIN rest |->
                              IF k = i /\ rest[k].st = "queued"
                              THEN [rest[k] EXCEPT !.st = "called"] ELSE rest[k]]
                /\ httpOut' = IF jobs[i].by = NoConn
                              THEN <<Resp("post", jobs[i].id, 200, <<>>, "")>>
                              ELSE << >>
                /\ out' = Silent
                /\ queueBroken' = queueBroken
           ELSE /\ jobs' = SelectSeq(rest, InFlight)
                /\ httpOut' = [k \in 1..Len(SelectSeq(jobs, LAMBDA j : j.by = NoConn /\ (j.id = jobs[i].id \/ (j.id > jobs[i].id /\ j.st = "queued")))) |->
                                 Resp("post", SelectSeq(jobs, LAMBDA j : j.by = NoConn /\ (j.id = jobs[i].id \/ (j.id > jobs[i].id /\ j.st = "queued")))[k].id,
                                      400, <<>>, WriteErrorText)]
                /\ out' = [c \in Conns |->
                             IF readyState[c] = "OPEN" /\ \E k \in lost : jobs[k].by = c
                             THEN <<ErrorMsg(WriteErrorText)>> ELSE <<>>]
                /\ queueBroken' = TRUE
    /\ ev' = Event("settle", jobs[i].by, IF ok THEN "written" ELSE "failed", <<>>)
    /\ UNCHANGED <<currentConfig, isDefault, readyState, wsMessageLimits, now,
                   render, nacc, lastWrite, acceptedPartials, lastSent,
                   arrivals, bootConfig>>
    /\ UNCHANGED <<aside, objects>>

(* The last configuration whose writeFile completed, kept beside the file  *)
(* by the specifications that follow it.                                   *)
Landed(i, ok) == durable' = IF ok THEN <<jobs[i].cfg>> ELSE durable

----------------------------------------------------------------------------
(* server.js:445-459 with renderBadge, server.js:165-349: the render runs  *)
(* on the object currentConfig referred to when the handler was entered,   *)
(* suspends at the image loads and answers with the image of that object.  *)
Image(config) == Resp("badge", 0, 200, config, "")

BadgeGet ==
    /\ IF AwaitsBg(currentConfig) \/ AwaitsLogo(currentConfig)
       THEN /\ Len(render) < MaxRenders
            /\ render' = Append(render,
                  [cfg |-> currentConfig,
                   pc  |-> IF AwaitsBg(currentConfig) THEN "bg" ELSE "logo"])
            /\ httpOut' = << >>
       ELSE /\ render' = render
            /\ httpOut' = <<Image(currentConfig)>>
    /\ out' = Silent
    /\ ev' = Event("badge", NoConn, "-", <<>>)
    /\ UNCHANGED <<currentConfig, isDefault, readyState, wsMessageLimits, now,
                   jobs, queueBroken, slot, nacc, lastWrite, acceptedPartials,
                   lastSent, arrivals, bootConfig>>
    /\ UNCHANGED <<durable, fnIn, fnOut>>

(* The render reading currentConfig again when it resumes. *)
RenderResumeRereads(i) ==
    /\ i \in DOMAIN render
    /\ IF render[i].pc = "bg" /\ AwaitsLogo(currentConfig)
       THEN /\ render' = [render EXCEPT ![i] = [cfg |-> currentConfig, pc |-> "logo"]]
            /\ httpOut' = << >>
       ELSE /\ render' = Without(render, i)
            /\ httpOut' = <<Image(currentConfig)>>
    /\ out' = Silent
    /\ ev' = Event("resume", NoConn, "-", <<>>)
    /\ UNCHANGED <<currentConfig, isDefault, readyState, wsMessageLimits, now,
                   jobs, queueBroken, slot, nacc, lastWrite, acceptedPartials,
                   lastSent, arrivals, bootConfig>>
    /\ UNCHANGED <<durable, aside, objects>>

RenderResume(i) ==
    /\ i \in DOMAIN render
    /\ IF render[i].pc = "bg" /\ AwaitsLogo(render[i].cfg)
       THEN /\ render' = [render EXCEPT ![i].pc = "logo"]
            /\ httpOut' = << >>
       ELSE /\ render' = Without(render, i)
            /\ httpOut' = <<Image(render[i].cfg)>>
    /\ out' = Silent
    /\ ev' = Event("resume", NoConn, "-", <<>>)
    /\ UNCHANGED <<currentConfig, isDefault, readyState, wsMessageLimits, now,
                   jobs, queueBroken, slot, nacc, lastWrite, acceptedPartials,
                   lastSent, arrivals, bootConfig>>
    /\ UNCHANGED <<durable, aside, objects>>

----------------------------------------------------------------------------
(* The process ends, at any point, and is started again: the module is     *)
(* loaded anew (server.js:17-42 and 421-433).  Memory starts over, the     *)
(* sockets are gone, pending saves are forgotten, and CONFIG_FILE is read  *)
(* as the ended process left it.                                           *)
Restart ==
    /\ currentConfig' = LoadConfig(slot).config
    /\ isDefault' = LoadConfig(slot).isDefault
    /\ bootConfig' = LoadConfig(slot).config
    /\ readyState' = [c \in Conns |-> "CLOSED"]
    /\ wsMessageLimits' = << >>
    /\ jobs' = << >>
    /\ queueBroken' = FALSE
    /\ render' = << >>
    /\ lastWrite' = << >>
    /\ lastSent' = [c \in Conns |-> << >>]
    /\ arrivals' = [c \in Conns |-> NoArrivals]
    /\ apiHits' = 0
    /\ out' = Silent
    /\ httpOut' = << >>
    /\ ev' = Event("restart", NoConn, "-", <<>>)
    /\ heap' = LoadObjects(slot)
    /\ currentRef' = Len(LoadObjects(slot))
    /\ handed' = {}
    /\ UNCHANGED <<slot, durable, now, nacc, acceptedPartials, fnIn, fnOut>>

----------------------------------------------------------------------------
(* server.js:18-24 and 439: every request under /api/ passes apiLimiter    *)
(* before its handler.  The limiter counts the request against the window  *)
(* and answers 429 itself once the count exceeds max; otherwise it calls   *)
(* the handler.                                                            *)
ApiMax == 60

TooManyText == "Too many requests, please try again later."

TooMany(op) ==
    /\ httpOut' = <<Resp(op, 0, 429, <<>>, TooManyText)>>
    /\ out' = Silent
    /\ ev' = Event(op, NoConn, "toomany", <<>>)
    /\ UNCHANGED <<currentConfig, isDefault, readyState, wsMessageLimits, now,
                   jobs, queueBroken, slot, render, nacc, lastWrite,
                   acceptedPartials, lastSent, arrivals, bootConfig>>
    /\ UNCHANGED <<durable, fnIn, fnOut>>

(* The limiter letting every request through. *)
LimiterNeverRejects(op, handler) ==
    /\ apiHits' = apiHits + 1
    /\ handler
    /\ UNCHANGED objects

apiLimiter(op, handler) ==
    /\ apiHits' = apiHits + 1
    /\ IF apiHits + 1 > ApiMax THEN TooMany(op) ELSE handler
    /\ UNCHANGED objects

(* The limiter's window ends and the count starts again (windowMs). *)
ApiWindowEnds ==
    /\ apiHits > 0
    /\ apiHits' = 0
    /\ out' = Silent
    /\ httpOut' = << >>
    /\ ev' = Event("window", NoConn, "-", <<>>)
    /\ UNCHANGED <<currentConfig, isDefault, readyState, wsMessageLimits, now,
                   jobs, queueBroken, slot, render, nacc, lastWrite,
                   acceptedPartials, lastSent, arrivals, bootConfig>>
    /\ UNCHANGED <<durable, fnIn, fnOut, objects>>

(* A request the limiter let through, in the specifications that follow    *)
(* neither the limiter's count nor the identities of the objects.          *)
Admitted(handler) == handler /\ UNCHANGED <<apiHits, objects>>

----------------------------------------------------------------------------
(* The handlers by object identity.  server.js:464-467 and 516-519:        *)
(* { ...DEFAULT_CONFIG, ...partial } builds a new object from the object   *)
(* DEFAULT_CONFIG refers to, the assignment makes currentConfig refer to   *)
(* it, and broadcastConfig and saveConfig are given that object.           *)

(* The merge written into the object currentConfig refers to. *)
InstallInPlace(partial) ==
    /\ heap' = [heap EXCEPT ![currentRef] = Spread(heap[DefaultRef], partial)]
    /\ currentRef' = currentRef
    /\ handed' = handed \cup {currentRef}

Install(partial) ==
    /\ heap' = Append(heap, Spread(heap[DefaultRef], partial))
    /\ currentRef' = Len(heap) + 1
    /\ handed' = handed \cup {Len(heap) + 1}

(* A write handler together with the objects it builds. *)
Tracked(handler, partial) ==
    /\ handler
    /\ IF ev'.verdict = "accepted" THEN Install(partial) ELSE UNCHANGED objects

(* server.js:447: renderBadge(currentConfig) is given the object           *)
(* currentConfig refers to.                                                *)
Handing(handler) ==
    /\ handler
    /\ handed' = handed \cup {currentRef}
    /\ UNCHANGED <<heap, currentRef>>

----------------------------------------------------------------------------
(* The two write transports and the connections' life cycle: client 1     *)
(* writes over its WebSocket, client 2 listens.                            *)
Next ==
    \/ \E body \in Partials : Admitted(HttpPost(body))
    \/ Admitted(HttpGet)
    \/ \E f \in Frames(Partials) : WsCount(1) < SyncBurst /\ WsMessage(1, f) /\ UNCHANGED objects
    \/ \E ws \in Conns : Connect(ws)
    \/ \E ws \in Conns : BeginClose(ws)
    \/ \E ws \in Conns : Close(ws)
    \/ Sweep

Spec == Init /\ [][Next]_vars

(* Writers over both transports against the durable write queue and the    *)
(* suspended renders: HTTP writes the theme, one WebSocket client the      *)
(* distance.                                                               *)
NextDurable ==
    \/ \E body \in {PTheme, PBadColor} : Admitted(HttpPost(body))
    \/ Admitted(HttpGet)
    \/ WsCount(1) < SyncBurst /\ WsMessage(1, Frame("SET_CONFIG", PKm)) /\ UNCHANGED objects
    \/ Connect(1)
    \/ \E i \in 1..MaxWrites : FsOpen(i)
    \/ \E i \in 1..MaxWrites, ok \in BOOLEAN : FsSettle(i, ok) /\ UNCHANGED durable
    \/ Admitted(BadgeGet)
    \/ \E i \in 1..MaxRenders : RenderResume(i)

SpecDurable == Init /\ [][NextDurable]_vars

(* The limiter under a clock: client 1 sends bursts of up to MaxBurst      *)
(* frames per window beside client 2.                                      *)
NextRate ==
    \/ \E f \in RateFrames : WsCount(1) < MaxBurst /\ WsMessage(1, f) /\ UNCHANGED objects
    \/ WsCount(2) < SyncBurst /\ WsMessage(2, Frame("PING", <<>>)) /\ UNCHANGED objects
    \/ \E ws \in Conns : Connect(ws)
    \/ Tick

SpecRate == Init /\ [][NextRate]_vars

(* The start-up load over what CONFIG_FILE can hold, followed by writes    *)
(* over both transports and reads.                                         *)
InitBoot == Start(BootFiles, {<< >>})

NextBoot ==
    \/ \E body \in BootPartials : Admitted(HttpPost(body))
    \/ Admitted(HttpGet)
    \/ \E p \in BootPartials : WsCount(1) < SyncBurst /\ WsMessage(1, Frame("SET_CONFIG", p)) /\ UNCHANGED objects
    \/ \E ws \in Conns : Connect(ws)

SpecBoot == InitBoot /\ [][NextBoot]_vars

(* The HTTP routes behind apiLimiter, with a subscriber connecting. *)
NextApi ==
    \/ apiHits <= ApiMax /\ apiLimiter("get", HttpGet)
    \/ \E body \in {PKm, PBadColor} : apiHits <= ApiMax /\ apiLimiter("post", HttpPost(body))
    \/ Connect(1)
    \/ ApiWindowEnds

SpecApi == Init /\ [][NextApi]_vars

(* The progress computation of renderBadge applied to configurations      *)
(* whose km and target the validators admit.                               *)
InitBadge == Start({NoFile}, BadgeConfigs)

DrawBadge ==
    /\ fnOut = << >>
    /\ fnOut' = <<[perc |-> perc(fnIn), badge |-> badgeText(fnIn)]>>
    /\ ev' = Event("renderBadge", NoConn, "-", <<>>)
    /\ UNCHANGED <<engine, apiHits, fnIn, objects>>

NextBadge == DrawBadge

SpecBadge == InitBadge /\ [][NextBadge]_vars

(* formatNumber applied to a whole number. *)
InitFormat == Start({NoFile}, FormatArgs)

CallFormat ==
    /\ fnOut = << >>
    /\ fnOut' = <<formatNumber(fnIn)>>
    /\ ev' = Event("formatNumber", NoConn, "-", <<>>)
    /\ UNCHANGED <<engine, apiHits, fnIn, objects>>

NextFormat == CallFormat

SpecFormat == InitFormat /\ [][NextFormat]_vars

(* Writers over both transports against a file system whose writes all     *)
(* succeed: every writeFile that was called opens the file, and every one  *)
(* that opened it completes.                                               *)
NextConverge ==
    \/ \E body \in Partials : Admitted(HttpPost(body))
    \/ \E p \in {PKm, PTheme} : WsCount(1) < SyncBurst /\ WsMessage(1, Frame("SET_CONFIG", p)) /\ UNCHANGED objects
    \/ Connect(1)
    \/ \E i \in 1..MaxWrites : FsOpen(i)
    \/ \E i \in 1..MaxWrites : FsSettle(i, TRUE) /\ UNCHANGED durable

SpecConverge ==
    /\ Init
    /\ [][NextConverge]_vars
    /\ WF_vars(\E i \in 1..MaxWrites : FsOpen(i))
    /\ WF_vars(\E i \in 1..MaxWrites : FsSettle(i, TRUE) /\ UNCHANGED durable)

(* Renders suspended at their image loads beside writers; a write of      *)
(* PExtra makes the following renders load a background image first.       *)
NextRender ==
    \/ \E body \in {PKm, PExtra} : Admitted(HttpPost(body))
    \/ \E p \in {PKm, PExtra} : WsCount(1) < SyncBurst /\ WsMessage(1, Frame("SET_CONFIG", p)) /\ UNCHANGED objects
    \/ Connect(1)
    \/ Admitted(BadgeGet)
    \/ \E i \in 1..MaxRenders : RenderResume(i)

SpecRender == Init /\ [][NextRender]_vars

(* Writes, the file system carrying them out or failing, and restarts of   *)
(* the process.                                                            *)
NextRestart ==
    \/ \E body \in {PKm, PTheme} : Admitted(HttpPost(body))
    \/ \E i \in 1..MaxWrites : FsOpen(i)
    \/ \E i \in 1..MaxWrites, ok \in BOOLEAN : FsSettle(i, ok) /\ Landed(i, ok)
    \/ Restart

SpecRestart == Init /\ [][NextRestart]_vars

(* Writers over both transports, renders and the durable writes, followed  *)
(* by the identities of the configuration objects.                         *)
NextObjects ==
    \/ \E body \in {PTheme, PBadColor} :
          Tracked(HttpPost(body) /\ UNCHANGED apiHits, body)
    \/ \E p \in {PKm, PBadColor} :
          WsCount(1) < SyncBurst /\ Tracked(WsMessage(1, Frame("SET_CONFIG", p)), p)
    \/ Connect(1)
    \/ Handing(BadgeGet /\ UNCHANGED apiHits)
    \/ \E i \in 1..MaxRenders : RenderResume(i)
    \/ \E i \in 1..MaxWrites : FsOpen(i)
    \/ \E i \in 1..MaxWrites : FsSettle(i, TRUE) /\ UNCHANGED durable

SpecObjects == Init /\ [][NextObjects]_vars

(* validateConfig applied to a candidate. *)
InitValidate == Start({NoFile}, Candidates)

CallValidate ==
    /\ fnOut = << >>
    /\ fnOut' = <<validateConfig(fnIn)>>
    /\ ev' = Event("validateConfig", NoConn, "-", <<>>)
    /\ UNCHANGED <<engine, apiHits, fnIn, objects>>

NextValidate == CallValidate

SpecValidate == InitValidate /\ [][NextValidate]_vars

----------------------------------------------------------------------------
(* What the claims are stated with.                                        *)

(* cfg is the canonical default overwritten field by field by partial.     *)
IsMergeOf(cfg, partial) ==
    /\ Keys(cfg) = Keys(DEFAULT_CONFIG) \cup Keys(partial)
    /\ \A k \in Keys(cfg) :
          Get(cfg, k) = IF Has(partial, k) THEN Get(partial, k)
                        ELSE Get(DEFAULT_CONFIG, k)

(* Some recognized field of the merged candidate of partial misses its     *)
(* predicate.                                                              *)
FailsValidation(partial) ==
    \E k \in (Keys(DEFAULT_CONFIG) \cup Keys(partial)) \cap DOMAIN validators :
        ~Satisfies(validators[k],
                   IF Has(partial, k) THEN Get(partial, k) ELSE Get(DEFAULT_CONFIG, k))

IsWriteEvent(e) ==
    e.op \in {"post", "message"} /\ e.verdict \in {"accepted", "invalid"}

Updates(o) == {c \in Conns : \E k \in DOMAIN o[c] : o[c][k].type = "UPDATE_CONFIG"}

(* C1: a write over either transport whose merged candidate fails          *)
(* validation changes neither currentConfig nor isDefault, sends no        *)
(* UPDATE_CONFIG, enqueues no durable write, and is answered with an       *)
(* error (HTTP 400, or an ERROR frame to the sender); GET /api/config      *)
(* answers with the configuration in memory, so after the rejection it     *)
(* returns the prior configuration.                                        *)
C1_RejectedWriteHasNoEffect ==
    [][ /\ (IsWriteEvent(ev') /\ FailsValidation(ev'.input)) =>
              /\ currentConfig' = currentConfig
              /\ isDefault' = isDefault
              /\ jobs' = jobs
              /\ Updates(out') = {}
              /\ IF ev'.op = "post"
                 THEN /\ Len(httpOut') = 1
                      /\ httpOut'[1].status = 400
                      /\ httpOut'[1].error # NoError
                      /\ out' = Silent
                 ELSE /\ httpOut' = << >>
                      /\ \E text \in {"Invalid value for color"} :
                            out' = Only(ev'.conn, ErrorMsg(text))
        /\ ev'.op = "get" =>
              /\ httpOut' = <<Resp("get", 0, 200, currentConfig, "")>>
              /\ currentConfig' = currentConfig
      ]_vars

C1_Witness ==
    /\ ev.op = "message" /\ ev.verdict = "invalid" /\ ev.input = PBadColor
    /\ nacc > 0
    /\ currentConfig # bootConfig
    /\ out[ev.conn] = <<ErrorMsg("Invalid value for color")>>

(* C2: once a write has been accepted, the configuration in memory, which  *)
(* GET /api/config returns, is the canonical default overwritten field by  *)
(* field by the partial of the latest accepted write, whatever the         *)
(* configuration was before.                                               *)
C2_LastWriteWins ==
    /\ lastWrite # << >> => IsMergeOf(currentConfig, lastWrite[1].p)
    /\ ev.op = "get" =>
          /\ Len(httpOut) = 1
          /\ httpOut[1].status = 200
          /\ httpOut[1].body = currentConfig

C2_Witness ==
    /\ ev.op = "get"
    /\ nacc = 2
    /\ lastWrite[1].p = PTheme
    /\ acceptedPartials = {PKm, PTheme}
    /\ httpOut[1].body = Spread(DEFAULT_CONFIG, PTheme)

----------------------------------------------------------------------------
(* cfg is the start-up configuration or the whole merged candidate of one  *)
(* accepted write.                                                         *)
IsWhole(cfg) ==
    cfg = bootConfig \/ \E p \in acceptedPartials : IsMergeOf(cfg, p)

(* cfg is the configuration of the latest accepted write, the start-up     *)
(* configuration when there is none.                                       *)
IsLatest(cfg) ==
    IF lastWrite = << >> THEN cfg = bootConfig
    ELSE IsMergeOf(cfg, lastWrite[1].p)

Carried(o) ==
    UNION {{o[c][k].data : k \in {n \in DOMAIN o[c] : o[c][n].type # "ERROR"}} :
              c \in Conns}

Answered(h) == {h[k].body : k \in {n \in DOMAIN h : h[n].of \in {"get", "badge"}}}

(* C3: under every interleaving of HTTP and push writers with the steps of *)
(* the durable writes and of suspended renders, every configuration that   *)
(* can be observed (in memory, in the answer of GET /api/config, in        *)
(* INIT_CONFIG or UPDATE_CONFIG, as the input of a render, suspended or     *)
(* answering) is the start-up configuration or the complete merged         *)
(* candidate of one accepted write, never a mix of two writes.             *)
C3_NoMixedConfiguration ==
    /\ IsWhole(currentConfig)
    /\ \A cfg \in Answered(httpOut) : IsWhole(cfg)
    /\ \A cfg \in Carried(out) : IsWhole(cfg)
    /\ \A i \in DOMAIN render : IsWhole(render[i].cfg)

C3_Witness ==
    /\ nacc = 2
    /\ acceptedPartials = {PKm, PTheme}
    /\ render # << >>
    /\ render[1].cfg # currentConfig
    /\ render[1].cfg # bootConfig
    /\ jobs # << >>
    /\ ev.op = "get"

StartedJobs == {k \in DOMAIN jobs : InFlight(jobs[k])}

Serialized ==
    /\ Cardinality(StartedJobs) <= 1
    /\ \A k \in StartedJobs : k = 1
    /\ \A k, l \in DOMAIN jobs : k < l => jobs[k].id < jobs[l].id
    /\ ev.op = "open" =>
          /\ jobs # << >>
          /\ jobs[1].st = "opened"
          /\ slot.writers = {jobs[1].id}

C5_FailedWriteContained ==
    [][ /\ (ev'.op = "settle" /\ ev'.verdict = "failed") =>
              /\ currentConfig' = currentConfig
              /\ isDefault' = isDefault
              /\ Len(jobs') = Len(jobs) - 1
              /\ jobs' # << >> => InFlight(jobs'[1])
              /\ out' = Silent
              /\ httpOut' = IF ev'.conn = NoConn
                            THEN <<Resp("post", jobs[1].id, 200, << >>, "")>>
                            ELSE << >>
        /\ \A k \in DOMAIN httpOut' : httpOut'[k].error # WriteErrorText
        /\ \A c \in Conns : \A k \in DOMAIN out'[c] : out'[c][k] # ErrorMsg(WriteErrorText)
        /\ (ev'.op \in {"post", "message"} /\ ev'.verdict = "accepted") =>
              Len(jobs') = Len(jobs) + 1
      ]_vars

C5_Witness ==
    /\ ev.op = "settle" /\ ev.verdict = "failed" /\ ev.conn = NoConn
    /\ httpOut = <<Resp("post", 1, 200, << >>, "")>>
    /\ jobs # << >>
    /\ jobs[1].st = "called" /\ jobs[1].id = 2
    /\ slot.kind = "partial"
    /\ currentConfig = jobs[1].cfg

(* C6: from the step a write is accepted, GET /api/config, the INIT_CONFIG *)
(* of a new connection and a render started afterwards all see the new     *)
(* configuration, whether the durable write of it is pending, has not      *)
(* started, or has failed.                                                 *)
C6_SwapImmediatelyObservable ==
    /\ ev.op = "get" => Len(httpOut) = 1 /\ IsLatest(httpOut[1].body)
    /\ ev.op = "connection" =>
          /\ Len(out[ev.conn]) = 1
          /\ out[ev.conn][1].type = "INIT_CONFIG"
          /\ IsLatest(out[ev.conn][1].data)
    /\ ev.op = "badge" =>
          IF httpOut = << >>
          THEN render # << >> /\ IsLatest(render[Len(render)].cfg)
          ELSE IsLatest(httpOut[1].body)

C6_Witness ==
    /\ ev.op = "get"
    /\ lastWrite # << >>
    /\ jobs # << >>
    /\ jobs[Len(jobs)].st = "queued"
    /\ jobs[Len(jobs)].cfg = httpOut[1].body
    /\ slot.kind = "partial"
    /\ httpOut[1].body # bootConfig

----------------------------------------------------------------------------
IsAccepted(e) == e.op \in {"post", "message"} /\ e.verdict = "accepted"

(* C7: an accepted write is broadcast exactly once with the whole new      *)
(* configuration: each connection that is OPEN at that moment and is not   *)
(* the sender of a push write is sent exactly one UPDATE_CONFIG, the       *)
(* sender, the closing and the closed connections are sent nothing; an     *)
(* HTTP write has no sender to leave out.  No other step sends             *)
(* UPDATE_CONFIG.                                                          *)
C7_ExactlyOneBroadcast ==
    [][ /\ IsAccepted(ev') =>
              /\ IsMergeOf(currentConfig', ev'.input)
              /\ \A c \in Conns :
                    out'[c] = IF readyState[c] = "OPEN" /\ c # ev'.conn
                              THEN <<UpdateMsg(currentConfig')>>
                              ELSE << >>
        /\ ~IsAccepted(ev') => Updates(out') = {}
      ]_vars

C7_Witness ==
    /\ ev.op = "message" /\ ev.verdict = "accepted" /\ ev.conn = 1
    /\ readyState = [c \in Conns |-> "OPEN"]
    /\ out[1] = << >>
    /\ out[2] = <<UpdateMsg(Spread(DEFAULT_CONFIG, PKm))>>
    /\ nacc = 2

(* C8: UPDATE_CONFIG is sent in the order the writes are applied: a step   *)
(* sends a connection at most one UPDATE_CONFIG, only in the step that     *)
(* applies a write and carrying the configuration that step applied, so    *)
(* the last configuration sent to a connection that has stayed open and    *)
(* did not send the latest write is the current configuration.             *)
C8_BroadcastOrder ==
    [][ /\ \A c \in Updates(out') :
              /\ nacc' = nacc + 1
              /\ out'[c] = <<UpdateMsg(currentConfig')>>
              /\ lastSent'[c] = <<currentConfig'>>
        /\ \A c \in Conns :
              (/\ readyState'[c] = "OPEN"
               /\ (lastWrite' = << >> \/ lastWrite'[1].by # c))
              => lastSent'[c] = <<currentConfig'>>
      ]_vars

C8_Witness ==
    /\ nacc = 2
    /\ readyState = [c \in Conns |-> "OPEN"]
    /\ lastWrite # << >> /\ lastWrite[1].by = 1
    /\ lastSent[2] = <<currentConfig>>
    /\ lastSent[1] # <<currentConfig>>
    /\ lastSent[1] # <<bootConfig>>
    /\ ev.op = "message"

----------------------------------------------------------------------------
RateLimited(c) ==
    /\ ev'.verdict = "ratelimited"
    /\ out' = Only(c, ErrorMsg(RateLimitText))
    /\ httpOut' = << >>
    /\ currentConfig' = currentConfig
    /\ isDefault' = isDefault
    /\ jobs' = jobs

(* C9 as claimed: whenever a message of a connection is the 11th of that   *)
(* connection within one second, whatever came before, it is answered with *)
(* the rate-limit ERROR and has no effect on the configuration.            *)
C9_EleventhWithinSecondRejected ==
    [][ (/\ ev'.op = "message"
         /\ Len(arrivals'[ev'.conn].recent) = WS_RATE_LIMIT + 1)
        => RateLimited(ev'.conn)
      ]_vars

(* C9, amended: when a connection sends 11 messages within one second, the *)
(* first of them being its first message or arriving at least one second   *)
(* after the message before it, the 11th is answered with the rate-limit   *)
(* ERROR and has no effect on the configuration.                           *)
C9_EleventhOfBurstRejected ==
    [][ (/\ ev'.op = "message"
         /\ arrivals'[ev'.conn].qcount = WS_RATE_LIMIT + 1
         /\ now' - arrivals'[ev'.conn].qstart < WS_WINDOW_MS)
        => RateLimited(ev'.conn)
      ]_vars

C9_Witness ==
    /\ ev.op = "message" /\ ev.verdict = "ratelimited" /\ ev.conn = 1
    /\ arrivals[1].qcount = WS_RATE_LIMIT + 1
    /\ arrivals[1].qstart = 0
    /\ now = TickMs
    /\ out = Only(1, ErrorMsg(RateLimitText))
    /\ nacc > 0

(* C10: within one window of a connection at most WS_RATE_LIMIT of its     *)
(* messages pass the limiter and reach merge and validation; every further *)
(* message in that window is answered with an ERROR to that connection     *)
(* only, changes neither currentConfig nor isDefault nor the durable queue *)
(* nor any other connection's counter, is not broadcast and does not close *)
(* the connection; a message arriving once the window has elapsed starts a *)
(* new count and passes.                                                   *)
C10_ConnectionThrottling ==
    [][ ev'.op = "message" =>
          LET c == ev'.conn
              known == c \in DOMAIN wsMessageLimits
          IN  /\ arrivals'[c].wpass <= WS_RATE_LIMIT
              /\ (/\ known
                  /\ now < wsMessageLimits[c].resetTime
                  /\ arrivals[c].wpass >= WS_RATE_LIMIT)
                 => /\ RateLimited(c)
                    /\ Updates(out') = {}
                    /\ readyState' = readyState
                    /\ DOMAIN wsMessageLimits' = DOMAIN wsMessageLimits
                    /\ \A d \in DOMAIN wsMessageLimits \ {c} :
                          wsMessageLimits'[d] = wsMessageLimits[d]
              /\ (known /\ now >= wsMessageLimits[c].resetTime)
                 => /\ ev'.verdict # "ratelimited"
                    /\ wsMessageLimits'[c] = Entry(1, now + WS_WINDOW_MS)
      ]_vars

C10_Witness ==
    /\ ev.op = "message" /\ ev.verdict = "ratelimited" /\ ev.conn = 1
    /\ wsMessageLimits[1].count = WS_RATE_LIMIT + 1
    /\ arrivals[1].wpass = WS_RATE_LIMIT
    /\ 2 \in DOMAIN wsMessageLimits
    /\ wsMessageLimits[2].count = 1
    /\ readyState[1] = "OPEN"
    /\ wsMessageLimits[1].resetTime = 2 * WS_WINDOW_MS
    /\ currentConfig # bootConfig

----------------------------------------------------------------------------
(* C11: at start-up isDefault is true and the configuration is the         *)
(* canonical default whenever CONFIG_FILE is absent or cannot be parsed;   *)
(* every accepted write clears the flag and no step sets it again; so      *)
(* isDefault implies that currentConfig is the canonical default, and the  *)
(* INIT_CONFIG sent on connect carries the configuration and the flag of   *)
(* that moment.                                                            *)
C11_DefaultFlag ==
    /\ [](/\ isDefault => currentConfig = DEFAULT_CONFIG
          /\ (ev.op = "start" /\ slot.kind # "complete") =>
                (isDefault /\ currentConfig = DEFAULT_CONFIG)
          /\ (ev.op = "start" /\ slot.kind = "complete") => ~isDefault)
    /\ [][ /\ IsAccepted(ev') => ~isDefault'
           /\ ~isDefault => ~isDefault'
           /\ ev'.op = "connection" =>
                 /\ out'[ev'.conn] =
                       <<[type |-> "INIT_CONFIG", data |-> currentConfig,
                          isDefault |-> isDefault, message |-> ""]>>
                 /\ isDefault' = isDefault
                 /\ currentConfig' = currentConfig
         ]_vars

C11_Witness ==
    /\ ev.op = "connection"
    /\ slot.kind = "partial"
    /\ isDefault
    /\ out[ev.conn][1].isDefault
    /\ out[ev.conn][1].data = DEFAULT_CONFIG
    /\ nacc = 0

----------------------------------------------------------------------------
(* C12 as claimed: the merge of any partial with the canonical default has *)
(* exactly the canonical default's keys, so the configuration in memory    *)
(* has exactly those keys after the start-up load and after every write.   *)
C12_KeySetEqualsDefault ==
    Keys(currentConfig) = Keys(DEFAULT_CONFIG)

(* C12, amended: the merge of any partial with the canonical default has   *)
(* every key of the canonical default, each once, and besides them the     *)
(* keys of the partial that the default does not have; so the              *)
(* configuration in memory, after the start-up load and after every write, *)
(* misses no key of the default and holds the extra keys of the file       *)
(* loaded or of the latest accepted partial.                               *)
C12_NoMissingKeys ==
    LET source == IF lastWrite # << >> THEN lastWrite[1].p
                  ELSE IF slot.kind = "complete" THEN slot.cfg
                  ELSE << >>
    IN  /\ Keys(DEFAULT_CONFIG) \subseteq Keys(currentConfig)
        /\ Keys(currentConfig) = Keys(DEFAULT_CONFIG) \cup Keys(source)
        /\ Len(currentConfig) = Cardinality(Keys(currentConfig))
        /\ \A i \in DOMAIN DEFAULT_CONFIG : currentConfig[i].k = DEFAULT_CONFIG[i].k

C12_Witness ==
    /\ IsAccepted(ev)
    /\ ev.input = PExtra
    /\ Has(currentConfig, "bgImageBase64")
    /\ Keys(currentConfig) # Keys(DEFAULT_CONFIG)
    /\ Len(currentConfig) = Len(DEFAULT_CONFIG) + 1
    /\ nacc = 2

----------------------------------------------------------------------------
(* C13: in every reachable state, the one the start-up load produces       *)
(* included, target is a number greater than zero and every field that has *)
(* a validator satisfies it; a write whose target is zero or negative is   *)
(* rejected.                                                               *)
C13_TargetAlwaysPositive ==
    /\ Has(currentConfig, "target")
    /\ IsNumber(Get(currentConfig, "target"))
    /\ Get(currentConfig, "target").n > 0
    /\ \A k \in Keys(currentConfig) \cap DOMAIN validators :
          Satisfies(validators[k], Get(currentConfig, k))
    /\ (ev.op \in {"post", "message"} /\ ev.input \in {PZeroTarget, PNegTarget}) =>
          ev.verdict = "invalid"

----------------------------------------------------------------------------
(* C14: validateConfig succeeds exactly when every property of the         *)
(* candidate that has a predicate in validators satisfies it; properties   *)
(* without a predicate are ignored and never cause a rejection; on failure *)
(* the error names the first offending property in the candidate's own     *)
(* order.                                                                  *)
C14_ValidatorResult ==
    fnOut # << >> =>
        LET offending == {i \in DOMAIN fnIn :
                            /\ fnIn[i].k \in DOMAIN validators
                            /\ ~Satisfies(validators[fnIn[i].k], fnIn[i].v)}
            first == CHOOSE i \in offending : \A j \in offending : i <= j
        IN  /\ (fnOut[1] = NoError) <=> (offending = {})
            /\ offending # {} => fnOut[1] = "Invalid value for " \o fnIn[first].k

----------------------------------------------------------------------------
(* C15 as claimed: handling GET /api/config leaves every piece of server   *)
(* state unchanged: currentConfig, isDefault, the durable queue, the       *)
(* subscriber set, the per-connection counters and the route-level budget  *)
(* that POST /api/config consults.                                         *)
C15_ReadHasNoSideEffects ==
    [][ev'.op = "get" =>
          UNCHANGED <<currentConfig, isDefault, jobs, queueBroken, slot,
                      readyState, wsMessageLimits, apiHits>>]_vars

(* C15, amended: GET /api/config leaves currentConfig, isDefault, the      *)
(* durable queue, the subscriber set and the per-connection counters       *)
(* unchanged and, while admitted, answers with currentConfig, but it is    *)
(* counted against the budget of ApiMax requests per window that all       *)
(* /api/ routes share.  A POST /api/config is answered 429, with nothing   *)
(* changed, exactly when ApiMax requests, reads included, have already     *)
(* been counted in the window.                                             *)
C15_ReadSpendsOnlyBudget ==
    [][/\ ev'.op = "get" =>
             /\ UNCHANGED <<currentConfig, isDefault, jobs, queueBroken, slot,
                            readyState, wsMessageLimits>>
             /\ apiHits' = apiHits + 1
             /\ apiHits < ApiMax =>
                   httpOut' = <<Resp("get", 0, 200, currentConfig, "")>>
       /\ ev'.op = "post" =>
             /\ (ev'.verdict = "toomany") <=> (apiHits >= ApiMax)
             /\ ev'.verdict = "toomany" =>
                   /\ httpOut' = <<Resp("post", 0, 429, <<>>, TooManyText)>>
                   /\ UNCHANGED <<currentConfig, isDefault, jobs, nacc>>]_vars

C15_Witness ==
    /\ ev.op = "post"
    /\ ev.verdict = "toomany"
    /\ apiHits = ApiMax + 1
    /\ nacc = 0
    /\ isDefault

----------------------------------------------------------------------------
(* C16: for every configuration the renderer's progress equals             *)
(* min(distance / target, 1) and the badge shows round(100 * progress)     *)
(* followed by "%"; for the canonical default (km = 25, target = 2026) the *)
(* badge reads "1%".                                                       *)
C16_BadgePercentage ==
    fnOut # << >> =>
        LET km == Get(fnIn, "km").n
            target == Get(fnIn, "target").n
            q == fnOut[1].perc
            progress == IF km >= target THEN 100
                        ELSE RoundPercent(km, target)
        IN  /\ q.kind = "finite"
            /\ IF km >= target THEN q.num = q.den
               ELSE q.num * target = km * q.den
            /\ fnOut[1].badge = Join(IntegerText(progress)) \o "%"
            /\ fnIn = DEFAULT_CONFIG => fnOut[1].badge = "1%"

----------------------------------------------------------------------------
(* The thousands grouping of a whole number, from its value: the grouping  *)
(* of the thousands, a separator, and the last three digits.               *)
RECURSIVE ThousandsGrouping(_)
ThousandsGrouping(i) ==
    IF i < 1000 THEN DecimalDigits(i)
    ELSE ThousandsGrouping(i \div 1000)
            \o <<".", DigitChar((i % 1000) \div 100), DigitChar((i % 100) \div 10),
                 DigitChar(i % 10)>>

(* C17: for every non-negative whole number in the validated range         *)
(* formatNumber gives the digits grouped in threes from the right with "." *)
(* between the groups, and no separator under 1000: 1234567 gives          *)
(* "1.234.567", 999 gives "999", 0 gives "0".                              *)
C17_FormatNumber ==
    fnOut # << >> =>
        LET i == fnIn.n \div 100
        IN  /\ fnOut[1] = Join(ThousandsGrouping(i))
            /\ i < 1000 => fnOut[1] = Join(DecimalDigits(i))
            /\ i = 1234567 => fnOut[1] = "1.234.567"
            /\ i = 999 => fnOut[1] = "999"
            /\ i = 0 => fnOut[1] = "0"

C17_Witness ==
    /\ fnIn = Num(1234567)
    /\ fnOut = <<"1.234.567">>
    /\ ev.op = "formatNumber"

----------------------------------------------------------------------------
AcceptedConfigs == {MergeWithDefaults(p) : p \in acceptedPartials}

Converged ==
    /\ slot.kind = "complete"
    /\ slot.cfg = currentConfig
    /\ jobs = << >>

(* Durable jobs are enqueued in the order of the swaps: the youngest job   *)
(* carries the configuration in memory, and the jobs are in the order of   *)
(* their writes.                                                           *)
EnqueuedInSwapOrder ==
    /\ \A k, l \in DOMAIN jobs : k < l => jobs[k].id < jobs[l].id
    /\ jobs # << >> =>
          /\ jobs[Len(jobs)].cfg = currentConfig
          /\ jobs[Len(jobs)].id = nacc

----------------------------------------------------------------------------
(* C19: a render started by GET /api/badge.png uses, before and after its  *)
(* image-load suspension points, the configuration that was current when   *)
(* it started: the started render holds currentConfig, no step of another  *)
(* handler changes what a suspended render holds, a resumed render goes on *)
(* or answers with the image of the configuration it holds, and neither    *)
(* the start nor the resumption of a render changes shared state.          *)
C19_RenderSnapshot ==
    [][/\ ev'.op = "badge" =>
             /\ \/ /\ render' = render
                   /\ httpOut' = <<Image(currentConfig)>>
                \/ /\ Len(render') = Len(render) + 1
                   /\ SubSeq(render', 1, Len(render)) = render
                   /\ render'[Len(render')].cfg = currentConfig
                   /\ httpOut' = << >>
       /\ ev'.op = "resume" =>
             \E i \in DOMAIN render :
                \/ /\ render' = Without(render, i)
                   /\ httpOut' = <<Image(render[i].cfg)>>
                \/ /\ render' = [render EXCEPT ![i].pc = "logo"]
                   /\ render[i].pc = "bg"
                   /\ httpOut' = << >>
       /\ ev'.op \in {"badge", "resume"} =>
             UNCHANGED <<currentConfig, isDefault, jobs, queueBroken, slot,
                         readyState, wsMessageLimits, lastSent, nacc>>
       /\ ev'.op \notin {"badge", "resume"} => render' = render]_vars

C19_Witness ==
    /\ ev.op = "resume"
    /\ httpOut # << >>
    /\ Has(httpOut[1].body, "bgImageBase64")
    /\ AwaitsLogo(httpOut[1].body)
    /\ httpOut[1].body # currentConfig
    /\ ~Has(currentConfig, "bgImageBase64")
    /\ nacc = 2

----------------------------------------------------------------------------
(* C20: after a restart the registry holds the canonical default           *)
(* overwritten by the last successfully written configuration, with the    *)
(* flag false: writes whose durable job had not succeeded are lost and the *)
(* prior durable snapshot is back.  When nothing was ever written and no   *)
(* file was there, or the file cannot be parsed, the registry holds the    *)
(* canonical default with the flag true.                                   *)
C20_RestartBehaviour ==
    ev.op = "restart" =>
        /\ durable # << >> =>
              /\ currentConfig = Spread(DEFAULT_CONFIG, durable[1])
              /\ ~isDefault
        /\ slot.kind # "complete" =>
              /\ currentConfig = DEFAULT_CONFIG
              /\ isDefault

----------------------------------------------------------------------------
Acks(h) == {h[k].job : k \in {n \in DOMAIN h : h[n].of = "post" /\ h[n].status = 200}}

(* C21: the 200 of an accepted POST /api/config is sent only in the step   *)
(* in which that write's durable job finishes, succeeded or failed, and    *)
(* then no job enqueued before it is unfinished; the step that accepts the *)
(* write swaps the configuration in memory, broadcasts it and enqueues the *)
(* job without answering, so while a durable write stalls no later HTTP    *)
(* write is answered.                                                      *)
C21_AckAfterDurableJob ==
    [][/\ \A id \in Acks(httpOut') :
             /\ ev'.op = "settle"
             /\ \E i \in DOMAIN jobs :
                   /\ jobs[i].id = id
                   /\ jobs[i].by = NoConn
                   /\ InFlight(jobs[i])
             /\ \A j \in DOMAIN jobs : jobs[j].id >= id
             /\ \A j \in DOMAIN jobs' : jobs'[j].id > id
       /\ (ev'.op = "post" /\ ev'.verdict = "accepted") =>
             /\ httpOut' = << >>
             /\ currentConfig' = MergeWithDefaults(ev'.input)
             /\ out' = broadcastConfig(currentConfig', NoConn)
             /\ jobs' # << >>
             /\ jobs'[Len(jobs')].cfg = currentConfig'
             /\ jobs'[Len(jobs')].by = NoConn
             /\ jobs # << >> => jobs'[Len(jobs')].st = "queued"]_vars

C21_Witness ==
    /\ ev.op = "settle"
    /\ ev.verdict = "written"
    /\ ev.conn = NoConn
    /\ Acks(httpOut) = {2}
    /\ jobs = << >>
    /\ nacc = 2
    /\ slot.kind = "complete"
    /\ slot.cfg = currentConfig
    /\ readyState[1] = "OPEN"

----------------------------------------------------------------------------
(* C22: the object DEFAULT_CONFIG refers to has the canonical default's    *)
(* value in every reachable state, although currentConfig refers to the    *)
(* same object until the first accepted write; every accepted write makes  *)
(* currentConfig refer to a newly built object; no step changes an object  *)
(* that exists, so a configuration given to a render, a broadcast or a     *)
(* queued durable job never changes afterwards.                            *)
C22_DefaultNeverModified ==
    /\ [](/\ heap[DefaultRef] = DEFAULT_CONFIG
          /\ currentConfig = heap[currentRef]
          /\ (isDefault => currentRef = DefaultRef)
          /\ \A i \in DOMAIN render : \E id \in handed : heap[id] = render[i].cfg
          /\ \A i \in DOMAIN jobs : \E id \in handed : heap[id] = jobs[i].cfg)
    /\ [][/\ \A id \in DOMAIN heap : id \in DOMAIN heap' /\ heap'[id] = heap[id]
          /\ handed \subseteq handed'
          /\ (ev'.op \in {"post", "message"} /\ ev'.verdict = "accepted") =>
                /\ currentRef' \notin DOMAIN heap
                /\ currentRef' \in handed'
                /\ heap'[currentRef'] = MergeWithDefaults(ev'.input)
          /\ ~(ev'.op \in {"post", "message"} /\ ev'.verdict = "accepted") =>
                currentRef' = currentRef]_vars

C22_Witness ==
    /\ DefaultRef \in handed
    /\ currentRef # DefaultRef
    /\ heap[DefaultRef] = DEFAULT_CONFIG
    /\ render # << >>
    /\ render[1].cfg = heap[DefaultRef]
    /\ Len(heap) = 3
    /\ nacc = 2
    /\ jobs # << >>

====
